---- MODULE Spec2Model ----
(***************************************************************************)
(* The Statement Dashboard of src/app.py as a state machine.               *)
(*                                                                         *)
(* Streamlit runs the script from top to bottom once per interaction       *)
(* (upload, removal of the file, change of the selectbox).  One run is a   *)
(* "pass": an interaction starts it, and the actions below are the         *)
(* script's regions in order, with pc the region the run has reached.      *)
(* The script's variables keep their names; `bound` holds the names the    *)
(* current pass has assigned (every pass starts from an empty namespace).  *)
(* What survives between passes is the widget state (uploaded, widget)     *)
(* and the cache of load_data.                                             *)
(*                                                                         *)
(* Values: a cell is a record [kind, text, num]; a data frame is           *)
(* [columns, rows] with rows a sequence of functions column -> cell, the   *)
(* position in the sequence being the row's index label.  A mean is the    *)
(* pair <<sum, count>> (<<0, 0>> is the mean of no value, NaN).            *)
(* Metric formatting (f-strings) and layout are not modelled: `out` lists  *)
(* the elements a pass has put on the page, by label.                      *)
(***************************************************************************)
EXTENDS Integers, Sequences, FiniteSets, TLC

VARIABLES disk, uploaded, widget, cache, hit, pc, bound, df, user_list,
          selected_user, total_revenue, avg_net_profit_margin, total_assets,
          total_users, top_10_users, top_20_assets, user_data, avg_npm,
          delta_vs_avg, asset_data, liability_data, view, out, err

widgetVars == <<uploaded, widget>>
sideVars   == <<df, user_list, selected_user>>
ovVars     == <<total_revenue, avg_net_profit_margin, total_assets,
                total_users, top_10_users, top_20_assets>>
ddVars     == <<user_data, avg_npm, delta_vs_avg, asset_data, liability_data>>
vars       == <<disk, uploaded, widget, cache, hit, pc, bound, df, user_list,
                selected_user, total_revenue, avg_net_profit_margin,
                total_assets, total_users, top_10_users, top_20_assets,
                user_data, avg_npm, delta_vs_avg, asset_data, liability_data,
                view, out, err>>

----------------------------------------------------------------------------
(* Bounds of the model and constants of the program.                       *)

\* rows of a file of the interactive sessions
MaxRows == 2
\* rows of a table of the aggregation runs (all value combinations)
MaxTableRows == 2
\* amounts of a table of the aggregation runs are 1..MaxAmount
MaxAmount == 2
\* rows of the longest patterned table (more than either top-N)
LongRows == 22

\* df.nlargest(10, 'Revenue')
TopRevenue == 10
\* df.nlargest(20, 'TotalAssets')
TopAssets == 20

----------------------------------------------------------------------------
(* Cells and columns.                                                      *)

Text(s)   == [kind |-> "text",   text |-> s,  num |-> 0]
Number(n) == [kind |-> "number", text |-> "", num |-> n]
Blank     == [kind |-> "blank",  text |-> "", num |-> 0]
NaN       == [kind |-> "nan",    text |-> "", num |-> 0]
\* the value of a script variable no pass has assigned yet
Unset     == [kind |-> "unset",  text |-> "", num |-> 0]

Overview == Text("Overview")

\* The columns the script reads, in the order of the Financial Record.
Columns == <<"UserID", "Revenue", "COGS", "GrossProfit", "NetProfit",
             "NetProfitMargin", "GrossProfitMargin", "OperatingExpenseRatio",
             "TotalAssets", "TotalLiabilities", "CashAndBankBalance",
             "AccountReceivables", "Inventory", "DepositsAdvancesPrepayments",
             "AccountPayables", "WagesPayable", "ProvisionsAccruals",
             "OtherPayables">>

Range(s) == {s[i] : i \in DOMAIN s}

Min(S) == CHOOSE x \in S : \A y \in S : x <= y

Least(a, b) == IF a <= b THEN a ELSE b

\* The indices of S in ascending order.
RECURSIVE Ascending(_)
Ascending(S) ==
    IF S = {} THEN <<>> ELSE <<Min(S)>> \o Ascending(S \ {Min(S)})

Without(c) == SelectSeq(Columns, LAMBDA x : x # c)

----------------------------------------------------------------------------
(* The uploaded file and pd.read_excel.                                    *)

NoFile == [name |-> "", valid |-> FALSE, header |-> <<>>, cells |-> <<>>]

EmptyFrame == [columns |-> {}, rows |-> <<>>]

\* if uploaded_file:
Truthy(file) == file # NoFile

\* A blank cell is read as NaN, every other cell as its value.
FromCell(x) == IF x.kind = "blank" THEN NaN ELSE x

\* The first sheet row is the header; each further row is a record over it.
read_excel(file) ==
    [columns |-> Range(file.header),
     rows    |-> [i \in 1..Len(file.cells) |->
                    [c \in Range(file.header) |->
                        FromCell(file.cells[i][CHOOSE j \in DOMAIN file.header :
                                                  file.header[j] = c])]]]

\* an entry keyed by the file's name alone
CacheKeyByName(file) == file.name

\* What st.cache_data keys an entry by: the argument (name and contents).
cache_key(file) == file

Cached(file) == \E e \in cache : e.key = cache_key(file)

\* load_data(file): the cached table of this argument, or a fresh parse.
load_data(file) ==
    IF Cached(file)
    THEN (CHOOSE e \in cache : e.key = cache_key(file)).value
    ELSE read_excel(file)

----------------------------------------------------------------------------
(* The aggregations of the overview and the row lookup of the drill-down.  *)

\* The cells of column c, in row order.
Column(d, c) == [i \in 1..Len(d.rows) |-> d.rows[i][c]]

\* Series.sum(): the numbers of the column added up row by row (NaN skipped).
RECURSIVE SumUpTo(_, _)
SumUpTo(s, n) ==
    IF n = 0 THEN 0
    ELSE SumUpTo(s, n - 1) + (IF s[n].kind = "number" THEN s[n].num ELSE 0)

\* the sum a de-duplicating implementation would give
SumDistinct(d, c) ==
    LET s == Column(d, c)
        firsts == {i \in DOMAIN s : \A j \in 1..(i - 1) : s[j] # s[i]}
    IN  SumUpTo([i \in 1..Len(s) |-> IF i \in firsts THEN s[i] ELSE NaN], Len(s))

Sum(d, c) == SumUpTo(Column(d, c), Len(d.rows))

\* Series.mean(): <<sum, count>> over the numbers of the column.
Mean(d, c) ==
    <<Sum(d, c), Cardinality({i \in 1..Len(d.rows) : d.rows[i][c].kind = "number"})>>

\* Series.unique(): the values in order of first appearance, one NaN at most.
unique(s) ==
    LET firsts == {i \in DOMAIN s : \A j \in 1..(i - 1) : s[j] # s[i]}
        order  == Ascending(firsts)
    IN  [k \in 1..Len(order) |-> s[order[k]]]

\* Series.nunique(): the number of distinct values, NaN not counted.
nunique(s) == Cardinality({x \in Range(s) : x.kind # "nan"})

\* Python's == on two cell values: NaN equals nothing, itself included.
PyEq(a, b) == a.kind # "nan" /\ b.kind # "nan" /\ a = b

\* Python's < on two values of one kind (code-point order on the strings used).
TextRank(t) == CASE t = "A" -> 1 [] t = "B" -> 2 [] t = "Overview" -> 3 [] OTHER -> 0

PyLt(a, b) ==
    IF a.kind = "text" /\ b.kind = "text" THEN TextRank(a.text) < TextRank(b.text)
    ELSE IF a.kind = "number" /\ b.kind = "number" THEN a.num < b.num
    ELSE FALSE

\* sorted() raises TypeError when it has to compare a str with a float.
MixedKinds(s) ==
    \E x, y \in Range(s) : x.kind = "text" /\ y.kind # "text"

\* The ascending arrangement of values that are totally ordered by <.
RECURSIVE SortedSet(_)
SortedSet(S) ==
    IF S = {} THEN <<>>
    ELSE LET m == CHOOSE x \in S : \A y \in S : ~PyLt(y, x)
         IN  <<m>> \o SortedSet(S \ {m})

\* The lists sorted() may return for a list of distinct values of one kind:
\* the ascending one, or, when a NaN is among them (every comparison with it
\* is False, so the place of each value depends on the sort's internals),
\* any arrangement.
sorted(s) ==
    IF \E x \in Range(s) : x.kind = "nan"
    THEN {p \in [1..Len(s) -> Range(s)] : Range(p) = Range(s)}
    ELSE {SortedSet(Range(s))}

\* the largest value's index with the latest taken on a tie (keep='last')
LastLargest(d, c, S) ==
    CHOOSE i \in S : \A j \in S :
        \/ d.rows[j][c].num < d.rows[i][c].num
        \/ d.rows[j][c].num = d.rows[i][c].num /\ j <= i

\* nlargest keeps the first of equal values (keep='first'): among the rows S,
\* the index of the largest value of column c, the earliest on a tie.
FirstLargest(d, c, S) ==
    CHOOSE i \in S : \A j \in S :
        \/ d.rows[j][c].num < d.rows[i][c].num
        \/ d.rows[j][c].num = d.rows[i][c].num /\ i <= j

RECURSIVE Largest(_, _, _, _)
Largest(d, c, S, k) ==
    IF k = 0 \/ S = {} THEN <<>>
    ELSE LET i == FirstLargest(d, c, S)
         IN  <<i>> \o Largest(d, c, S \ {i}, k - 1)

\* df.nlargest(n, c): the index labels of the rows kept, in result order.
nlargest(d, n, c) == Largest(d, c, 1..Len(d.rows), n)

\* df[df["UserID"] == selected]: the index labels of the matching rows.
Matching(d, selected) ==
    Ascending({i \in 1..Len(d.rows) : PyEq(d.rows[i]["UserID"], selected)})

\* the last row of a selection (.iloc[-1])
iloc0Last(sel) == sel[Len(sel)]

\* .iloc[0] of a selection: its first row.
iloc0(sel) == sel[1]

\* The elements a tab puts on the page: those of `items`, in order, up to the
\* first one that reads a column the frame does not have.
Rendered(items, cols) ==
    LET bad  == {i \in DOMAIN items : ~(items[i].needs \subseteq cols)}
        stop == IF bad = {} THEN Len(items) + 1 ELSE Min(bad)
    IN  [labels |-> [i \in 1..(stop - 1) |-> items[i].label], ok |-> bad = {}]

Item(l, n) == [label |-> l, needs |-> n]

----------------------------------------------------------------------------
(* The files a user may upload.                                            *)

\* The cell of column c in a sheet row written from r = [id, rev, assets, npm].
CellFor(c, r) ==
    CASE c = "UserID"          -> r.id
      [] c = "Revenue"         -> Number(r.rev)
      [] c = "TotalAssets"     -> Number(r.assets)
      [] c = "NetProfitMargin" -> Number(r.npm)
      [] OTHER                 -> Number(r.rev + r.assets)

Sheet(name, header, rs) ==
    [name   |-> name,
     valid  |-> TRUE,
     header |-> header,
     cells  |-> [i \in 1..Len(rs) |->
                   [j \in 1..Len(header) |-> CellFor(header[j], rs[i])]]]

SeqsUpTo(S, n) == UNION {[1..k -> S] : k \in 0..n}

\* Identifiers of the session files: text, the text "Overview", numbers, a
\* blank cell.
SessionIds == {Text("A"), Overview, Number(1), Number(2), Blank}

SessionRows(ids) ==
    [i \in 1..Len(ids) |->
        [id |-> ids[i], rev |-> 100 * i, assets |-> 500, npm |-> 10 * i]]

\* a file that is no spreadsheet
Corrupt == [name |-> "a.xlsx", valid |-> FALSE, header |-> <<>>, cells |-> <<>>]

\* Session files: every identifier column of up to MaxRows rows under the full
\* header, one-row files lacking one column each, and a corrupt file.
Files ==
    {Sheet("a.xlsx", Columns, SessionRows(ids)) : ids \in SeqsUpTo(SessionIds, MaxRows)}
    \cup {Sheet("a.xlsx", Without(c), SessionRows(<<id>>)) :
            c \in Range(Columns), id \in SessionIds}
    \cup {Corrupt}

\* The same contents under another name.
Renamed(f) == [f EXCEPT !.name = "b.xlsx"]

\* Other contents under the same name.
Edited ==
    Sheet("a.xlsx", Columns,
          <<[id |-> Text("B"), rev |-> 7, assets |-> 9, npm |-> 3],
            [id |-> Text("A"), rev |-> 5, assets |-> 9, npm |-> 4]>>)

\* The two files a session's user has at hand.
Disks == {<<f, g>> : f \in Files, g \in {Edited}} \cup {<<f, Renamed(f)>> : f \in Files}

\* Tables of the aggregation runs: every combination of two identifiers and
\* amounts 1..MaxAmount over up to MaxTableRows rows ...
TableRowSet ==
    {[id |-> Text(u), rev |-> v, assets |-> w, npm |-> 10 * v + w] :
        u \in {"A", "B"}, v \in 1..MaxAmount, w \in 1..MaxAmount}

\* ... and patterned tables of TopRevenue - 1 to LongRows rows, whose amounts
\* repeat with periods m and m + 1.
LongTable(n, k, m) ==
    [i \in 1..n |->
        [id     |-> IF i % 2 = 1 THEN Text("A") ELSE Text("B"),
         rev    |-> (i * k) % m,
         assets |-> (i * (k + 1)) % (m + 1),
         npm    |-> i]]

TableFiles ==
    {Sheet("t.xlsx", Columns, rs) : rs \in SeqsUpTo(TableRowSet, MaxTableRows)}
    \cup {Sheet("t.xlsx", Columns, LongTable(n, k, m)) :
            n \in (TopRevenue - 1)..LongRows, k \in 1..MaxAmount,
            m \in 2..(MaxAmount + 1)}

----------------------------------------------------------------------------
(* The script, region by region.                                           *)

NoWidget == [options |-> <<>>, index |-> 0]

NoMean == <<0, 0>>

\* st.set_page_config, st.title, st.header and st.file_uploader
PageTop == <<"title", "sidebar.header", "sidebar.file_uploader">>

\* A rerun: the script starts again in an empty namespace.
StartPass ==
    /\ pc' = "load"
    /\ bound' = {}
    /\ df' = EmptyFrame
    /\ user_list' = <<>>
    /\ selected_user' = Unset
    /\ total_revenue' = 0
    /\ avg_net_profit_margin' = NoMean
    /\ total_assets' = 0
    /\ total_users' = 0
    /\ top_10_users' = <<>>
    /\ top_20_assets' = <<>>
    /\ user_data' = 0
    /\ avg_npm' = NoMean
    /\ delta_vs_avg' = NoMean
    /\ asset_data' = <<>>
    /\ liability_data' = <<>>
    /\ view' = "none"
    /\ out' = PageTop
    /\ err' = "none"
    /\ hit' = FALSE
    /\ UNCHANGED <<disk, cache>>

\* The user puts a file into the uploader.
Upload(f) ==
    /\ pc = "idle"
    /\ f \in {disk[1], disk[2]}
    /\ f # uploaded
    /\ uploaded' = f
    /\ widget' = widget
    /\ StartPass

\* The user removes the file from the uploader.
Remove ==
    /\ pc = "idle"
    /\ uploaded # NoFile
    /\ uploaded' = NoFile
    /\ widget' = widget
    /\ StartPass

\* The user picks another option of the selectbox on the page.
Select(i) ==
    /\ pc = "idle"
    /\ i \in 1..Len(widget.options)
    /\ i # widget.index
    /\ widget' = [widget EXCEPT !.index = i]
    /\ uploaded' = uploaded
    /\ StartPass

\* An uncaught exception ends the run; the page shows it.
Fail(e, shown) ==
    /\ pc' = "idle"
    /\ err' = e
    /\ out' = out \o shown \o <<"exception">>

\* if uploaded_file: df = load_data(uploaded_file)
Load ==
    /\ pc = "load"
    /\ IF ~Truthy(uploaded)
       THEN /\ pc' = "main"
            /\ widget' = NoWidget
            /\ UNCHANGED <<cache, hit, bound, df, out, err>>
       ELSE IF ~Cached(uploaded) /\ ~uploaded.valid
       THEN /\ Fail("ValueError", <<>>)
            /\ widget' = NoWidget
            /\ UNCHANGED <<cache, hit, bound, df>>
       ELSE /\ df' = load_data(uploaded)
            /\ hit' = Cached(uploaded)
            /\ cache' = IF Cached(uploaded) THEN cache
                        ELSE cache \cup {[key   |-> cache_key(uploaded),
                                          value |-> read_excel(uploaded)]}
            /\ bound' = bound \cup {"df"}
            /\ pc' = "selector"
            /\ UNCHANGED <<widget, out, err>>
    /\ UNCHANGED <<disk, uploaded, user_list, selected_user, ovVars, ddVars, view>>

\* user_list = ["Overview"] + sorted(df["UserID"].unique())
\* selected_user = st.selectbox("Select a View", user_list)
\* The selectbox keeps the user's choice while its options stay the same and
\* starts at its first option otherwise.
Selector ==
    /\ pc = "selector"
    /\ IF "UserID" \notin df.columns
       THEN /\ Fail("KeyError", <<>>)
            /\ widget' = NoWidget
            /\ UNCHANGED <<bound, user_list, selected_user>>
       ELSE IF MixedKinds(unique(Column(df, "UserID")))
       THEN /\ Fail("TypeError", <<>>)
            /\ widget' = NoWidget
            /\ UNCHANGED <<bound, user_list, selected_user>>
       ELSE \E s \in sorted(unique(Column(df, "UserID"))) :
               LET ul == <<Overview>> \o s
                   w  == IF widget.options = ul THEN widget
                         ELSE [options |-> ul, index |-> 1]
               IN  /\ user_list' = ul
                   /\ widget' = w
                   /\ selected_user' = ul[w.index]
                   /\ bound' = bound \cup {"user_list", "selected_user"}
                   /\ out' = Append(out, "sidebar.selectbox")
                   /\ pc' = "main"
                   /\ err' = err
    /\ UNCHANGED <<disk, uploaded, cache, hit, df, ovVars, ddVars, view>>

\* a guard that never sees the uploader as empty
NeverNotUploaded(file) == FALSE

\* if not uploaded_file:
NotUploaded(file) == file = NoFile

\* if not uploaded_file: st.info(...)
\* else: if selected_user == "Overview": header and tabs of the overview
\*       else: the drill-down branch
\* Reading a name the pass has not assigned raises NameError.
Main ==
    /\ pc = "main"
    /\ IF NotUploaded(uploaded)
       THEN /\ out' = Append(out, "info")
            /\ view' = "info"
            /\ pc' = "idle"
            /\ err' = err
       ELSE IF "selected_user" \notin bound
       THEN /\ Fail("NameError", <<>>)
            /\ view' = view
       ELSE IF PyEq(selected_user, Overview)
       THEN /\ view' = "overview"
            /\ out' = out \o <<"header:overview", "tabs">>
            /\ pc' = "ov_tab1"
            /\ err' = err
       ELSE /\ view' = "drilldown"
            /\ pc' = "dd_row"
            /\ UNCHANGED <<out, err>>
    /\ UNCHANGED <<disk, widgetVars, cache, hit, bound, sideVars, ovVars, ddVars>>

\* with tab1: the four KPIs, the revenue histogram and the top-10 pie.
\* `frame` is the table the region leaves behind.
OvTab1Leaving(frame) ==
    /\ pc = "ov_tab1"
    /\ IF "df" \notin bound
       THEN /\ Fail("NameError", <<>>)
            /\ UNCHANGED <<bound, df, ovVars>>
       ELSE IF ~({"Revenue", "NetProfitMargin", "TotalAssets"} \subseteq df.columns)
       THEN /\ Fail("KeyError", <<>>)
            /\ UNCHANGED <<bound, df, ovVars>>
       ELSE /\ total_revenue' = Sum(df, "Revenue")
            /\ avg_net_profit_margin' = Mean(df, "NetProfitMargin")
            /\ total_assets' = Sum(df, "TotalAssets")
            /\ total_users' = nunique(Column(df, "UserID"))
            /\ top_10_users' = nlargest(df, TopRevenue, "Revenue")
            /\ df' = frame
            /\ bound' = bound \cup {"total_revenue", "avg_net_profit_margin",
                                    "total_assets", "total_users", "top_10_users"}
            /\ out' = out \o <<"metric:Total Revenue", "metric:Total Assets",
                               "metric:Avg. Net Profit Margin", "metric:Total Users",
                               "chart:Revenue Frequency",
                               "chart:Revenue Contribution by Top 10 Users">>
            /\ pc' = "ov_tab2"
            /\ UNCHANGED <<top_20_assets, err>>
    /\ UNCHANGED <<disk, widgetVars, cache, hit, user_list, selected_user, ddVars, view>>

\* the region with nlargest sorting the table in place
OvTab1InPlace ==
    OvTab1Leaving([df EXCEPT !.rows =
        LET order == nlargest(df, Len(df.rows), "Revenue")
        IN  [k \in 1..Len(order) |-> df.rows[order[k]]]])

\* nlargest returns a new frame: the region leaves df as it found it.
OvTab1 == OvTab1Leaving(df)

\* with tab2: the margin box plot and the profit-revenue scatter plot
\* (plotly raises ValueError for a column the frame does not have).
OvTab2 ==
    /\ pc = "ov_tab2"
    /\ LET r == Rendered(<<Item("chart:Spread of Net Profit Margin", {"NetProfitMargin"}),
                           Item("chart:Profitability vs. Scale", {"Revenue", "NetProfit"})>>,
                         df.columns)
       IN  IF r.ok
           THEN /\ out' = out \o r.labels
                /\ pc' = "ov_tab3"
                /\ err' = err
           ELSE Fail("ValueError", r.labels)
    /\ UNCHANGED <<disk, widgetVars, cache, hit, bound, sideVars, ovVars, ddVars, view>>

\* with tab3: the top-20 by assets and the assets-liabilities bar chart.
OvTab3 ==
    /\ pc = "ov_tab3"
    /\ top_20_assets' = nlargest(df, TopAssets, "TotalAssets")
    /\ bound' = bound \cup {"top_20_assets"}
    /\ IF {"UserID", "TotalAssets", "TotalLiabilities"} \subseteq df.columns
       THEN /\ out' = Append(out, "chart:Assets vs. Liabilities")
            /\ pc' = "idle"
            /\ err' = err
       ELSE Fail("ValueError", <<>>)
    /\ UNCHANGED <<disk, widgetVars, cache, hit, sideVars, total_revenue,
                   avg_net_profit_margin, total_assets, total_users, top_10_users,
                   ddVars, view>>

\* user_data = df[df["UserID"] == selected_user].iloc[0], then header and tabs
\* (.iloc[0] of an empty selection raises IndexError).  user_data holds the
\* row's index label; the row is df.rows[user_data].
DdRow ==
    /\ pc = "dd_row"
    /\ IF "df" \notin bound
       THEN /\ Fail("NameError", <<>>)
            /\ UNCHANGED <<bound, user_data>>
       ELSE IF Matching(df, selected_user) = <<>>
       THEN /\ Fail("IndexError", <<>>)
            /\ UNCHANGED <<bound, user_data>>
       ELSE /\ user_data' = iloc0(Matching(df, selected_user))
            /\ bound' = bound \cup {"user_data"}
            /\ out' = out \o <<"header:user", "tabs">>
            /\ pc' = "dd_tab1"
            /\ err' = err
    /\ UNCHANGED <<disk, widgetVars, cache, hit, sideVars, ovVars, avg_npm,
                   delta_vs_avg, asset_data, liability_data, view>>

\* with tab1: the income statement metrics and the balance sheet summary, each
\* reading one field of user_data (a missing one raises KeyError).
DdTab1 ==
    /\ pc = "dd_tab1"
    /\ LET r == Rendered(<<Item("metric:Revenue", {"Revenue"}),
                           Item("metric:COGS", {"COGS"}),
                           Item("metric:Gross Profit", {"GrossProfit"}),
                           Item("metric:Net Profit", {"NetProfit"}),
                           Item("markdown:Total Assets", {"TotalAssets"}),
                           Item("markdown:Cash and Bank", {"CashAndBankBalance"}),
                           Item("markdown:Accounts Receivable", {"AccountReceivables"}),
                           Item("markdown:Total Liabilities", {"TotalLiabilities"}),
                           Item("markdown:Accounts Payable", {"AccountPayables"}),
                           Item("markdown:Wages Payable", {"WagesPayable"})>>,
                         df.columns)
       IN  IF r.ok
           THEN /\ out' = out \o r.labels
                /\ pc' = "dd_tab2"
                /\ err' = err
           ELSE Fail("KeyError", r.labels)
    /\ UNCHANGED <<disk, widgetVars, cache, hit, bound, sideVars, ovVars, ddVars, view>>

\* with tab2: the three ratios, then the whole-table mean and the delta.
DdTab2 ==
    /\ pc = "dd_tab2"
    /\ LET r == Rendered(<<Item("metric:Gross Profit Margin", {"GrossProfitMargin"}),
                           Item("metric:Operating Expense Ratio", {"OperatingExpenseRatio"}),
                           Item("metric:Net Profit Margin", {"NetProfitMargin"})>>,
                         df.columns)
           m == Mean(df, "NetProfitMargin")
       IN  IF r.ok
           THEN /\ avg_npm' = m
                /\ delta_vs_avg' =
                      <<df.rows[user_data]["NetProfitMargin"].num * m[2] - m[1], m[2]>>
                /\ bound' = bound \cup {"avg_npm", "delta_vs_avg"}
                /\ out' = out \o r.labels
                            \o <<"metric:Company Average Net Profit Margin">>
                /\ pc' = "dd_tab3"
                /\ err' = err
           ELSE /\ Fail("KeyError", r.labels)
                /\ UNCHANGED <<bound, avg_npm, delta_vs_avg>>
    /\ UNCHANGED <<disk, widgetVars, cache, hit, sideVars, ovVars, user_data,
                   asset_data, liability_data, view>>

AssetColumns == <<"CashAndBankBalance", "AccountReceivables", "Inventory",
                  "DepositsAdvancesPrepayments">>

LiabilityColumns == <<"AccountPayables", "WagesPayable", "ProvisionsAccruals",
                      "OtherPayables">>

\* The 'Value' list of a composition chart: the named fields of user_data.
Values(cols) == [k \in 1..Len(cols) |-> df.rows[user_data][cols[k]]]

\* with tab3: the asset and the liability composition donuts.
DdTab3 ==
    /\ pc = "dd_tab3"
    /\ IF ~(Range(AssetColumns) \subseteq df.columns)
       THEN /\ Fail("KeyError", <<>>)
            /\ UNCHANGED <<bound, asset_data, liability_data>>
       ELSE IF ~(Range(LiabilityColumns) \subseteq df.columns)
       THEN /\ Fail("KeyError", <<"chart:Assets">>)
            /\ asset_data' = Values(AssetColumns)
            /\ bound' = bound \cup {"asset_data"}
            /\ liability_data' = liability_data
       ELSE /\ asset_data' = Values(AssetColumns)
            /\ liability_data' = Values(LiabilityColumns)
            /\ bound' = bound \cup {"asset_data", "liability_data"}
            /\ out' = out \o <<"chart:Assets", "chart:Liabilities">>
            /\ pc' = "idle"
            /\ err' = err
    /\ UNCHANGED <<disk, widgetVars, cache, hit, sideVars, ovVars, user_data,
                   avg_npm, delta_vs_avg, view>>

----------------------------------------------------------------------------
(* The specifications.                                                     *)

Namespace0 ==
    /\ bound = {}
    /\ df = EmptyFrame
    /\ user_list = <<>>
    /\ selected_user = Unset
    /\ total_revenue = 0
    /\ avg_net_profit_margin = NoMean
    /\ total_assets = 0
    /\ total_users = 0
    /\ top_10_users = <<>>
    /\ top_20_assets = <<>>
    /\ user_data = 0
    /\ avg_npm = NoMean
    /\ delta_vs_avg = NoMean
    /\ asset_data = <<>>
    /\ liability_data = <<>>
    /\ view = "none"
    /\ out = PageTop
    /\ err = "none"
    /\ hit = FALSE

\* A session opens the page: the first pass starts with no file uploaded.
Init ==
    /\ disk \in Disks
    /\ uploaded = NoFile
    /\ widget = NoWidget
    /\ cache = {}
    /\ pc = "load"
    /\ Namespace0

Pass ==
    \/ Load
    \/ Selector
    \/ Main
    \/ OvTab1
    \/ OvTab2
    \/ OvTab3
    \/ DdRow
    \/ DdTab1
    \/ DdTab2
    \/ DdTab3

Next ==
    \/ \E f \in {disk[1], disk[2]} : Upload(f)
    \/ Remove
    \/ \E i \in 1..Len(widget.options) : Select(i)
    \/ Pass

Spec == Init /\ [][Next]_vars

\* The aggregation runs: one table of TableFiles has just been uploaded, and
\* the user goes through the views of it.
InitTable ==
    /\ \E f \in TableFiles : disk = <<f, f>> /\ uploaded = f
    /\ widget = NoWidget
    /\ cache = {}
    /\ pc = "load"
    /\ Namespace0

NextTable ==
    \/ \E i \in 1..Len(widget.options) : Select(i)
    \/ Pass

SpecTable == InitTable /\ [][NextTable]_vars

----------------------------------------------------------------------------
(* Properties.                                                             *)

\* The rows of df whose UserID equals (Python ==) the selected option.
MatchSet == {i \in 1..Len(df.rows) : PyEq(df.rows[i]["UserID"], selected_user)}

\* The total of column c of df, value by value: each value times the number
\* of rows that hold it.
RECURSIVE CountedTotal(_, _)
CountedTotal(c, V) ==
    IF V = {} THEN 0
    ELSE LET v == CHOOSE x \in V : TRUE
         IN  v * Cardinality({i \in 1..Len(df.rows) : df.rows[i][c].num = v})
             + CountedTotal(c, V \ {v})

TotalOf(c) == CountedTotal(c, {df.rows[i][c].num : i \in 1..Len(df.rows)})

TopNCorrect(top, n, c) ==
    /\ Len(top) = Least(n, Len(df.rows))
    /\ \A a \in DOMAIN top : top[a] \in 1..Len(df.rows)
    /\ \A a, b \in DOMAIN top : a < b =>
          \/ df.rows[top[a]][c].num > df.rows[top[b]][c].num
          \/ /\ df.rows[top[a]][c].num = df.rows[top[b]][c].num
             /\ top[a] < top[b]

HasTie(top, c) ==
    \E a, b \in DOMAIN top : a < b /\ df.rows[top[a]][c].num = df.rows[top[b]][c].num

\* C1: each top-N selection of the overview (10 by Revenue, 20 by
\* TotalAssets) has exactly min(N, row count) rows, in descending order of
\* the column, rows of equal value in their original table order.
C1_TopN ==
    /\ "top_10_users" \in bound => TopNCorrect(top_10_users, TopRevenue, "Revenue")
    /\ "top_20_assets" \in bound => TopNCorrect(top_20_assets, TopAssets, "TotalAssets")

\* a table longer than both N, cut to 10 and to 20 rows, with ties in both
C1_Witness ==
    /\ "top_20_assets" \in bound
    /\ Len(df.rows) > TopAssets
    /\ Len(top_10_users) = TopRevenue
    /\ Len(top_20_assets) = TopAssets
    /\ HasTie(top_10_users, "Revenue")
    /\ HasTie(top_20_assets, "TotalAssets")

\* C2: selecting a specific identifier renders the drill-down of a row whose
\* UserID equals the selected value, and selecting the "Overview" entry
\* renders the overview and no single row; for every identifier of the
\* table, the string "Overview" included.  (The first option of the
\* selectbox is the "Overview" entry, the others are the identifiers.)
C2_SelectionRendersItsView ==
    view \in {"overview", "drilldown"} =>
        IF widget.index = 1
        THEN view = "overview" /\ "user_data" \notin bound
        ELSE /\ view = "drilldown"
             /\ \/ pc = "dd_row"
                \/ /\ "user_data" \in bound
                   /\ df.rows[user_data]["UserID"] = widget.options[widget.index]

\* C3: NotFound is unreachable: whenever the drill-down branch runs, the
\* selected identifier matches at least one row of the loaded table.
C3_NotFoundUnreachable ==
    /\ err # "IndexError"
    /\ pc = "dd_row" => MatchSet # {}

\* C4: a spreadsheet lacking a required column fails at the load with a
\* parse error, before any view is rendered, whatever is selected.
C4_MissingColumnFailsLoad ==
    (/\ uploaded # NoFile
     /\ uploaded.valid
     /\ ~(Range(Columns) \subseteq Range(uploaded.header))
     /\ pc # "load")
    => /\ err = "ValueError"
       /\ "df" \notin bound
       /\ view = "none"

\* C5: for every non-empty table, the overview's total_revenue is the sum of
\* Revenue over all rows, each row counted once.
C5_TotalRevenue ==
    ("total_revenue" \in bound /\ Len(df.rows) > 0) =>
        total_revenue = TotalOf("Revenue")

\* a table where two rows of one UserID hold the same Revenue
C5_Witness ==
    /\ "total_revenue" \in bound
    /\ \E i, j \in 1..Len(df.rows) :
          /\ i < j
          /\ df.rows[i]["UserID"] = df.rows[j]["UserID"]
          /\ df.rows[i]["Revenue"] = df.rows[j]["Revenue"]
    /\ total_revenue > 0

\* C6: whatever was loaded before, and whether or not the cache serves the
\* load, the table of a pass is the parse of the file now uploaded, the
\* aggregates are those of that table, and the view rendered is the one of
\* the option now selected.
C6_SameInputSameResult ==
    /\ "df" \in bound => df = read_excel(uploaded)
    /\ "total_revenue" \in bound =>
          /\ total_revenue = Sum(read_excel(uploaded), "Revenue")
          /\ total_assets = Sum(read_excel(uploaded), "TotalAssets")
          /\ avg_net_profit_margin = Mean(read_excel(uploaded), "NetProfitMargin")
          /\ total_users = nunique(Column(read_excel(uploaded), "UserID"))
          /\ top_10_users = nlargest(read_excel(uploaded), TopRevenue, "Revenue")
    /\ "top_20_assets" \in bound =>
          top_20_assets = nlargest(read_excel(uploaded), TopAssets, "TotalAssets")
    /\ "selected_user" \in bound =>
          /\ selected_user = widget.options[widget.index]
          /\ Range(user_list) =
                {Overview} \cup Range(Column(read_excel(uploaded), "UserID"))
    /\ view \in {"overview", "drilldown"} =>
          (view = "overview" <=> PyEq(selected_user, Overview))

\* a completed overview whose load the cache served, another file having
\* been loaded in between
C6_Witness ==
    /\ hit
    /\ Cardinality(cache) = 2
    /\ pc = "idle"
    /\ err = "none"
    /\ view = "overview"
    /\ Len(df.rows) > 0

\* C7: no step of a pass changes the loaded table: once df is assigned it is
\* the same after every further step of the pass, and an entry of the cache
\* never changes.
C7_TableReadOnly ==
    [][/\ ("df" \in bound /\ "df" \in bound') => df' = df
       /\ cache \subseteq cache']_vars

\* a completed overview of a table whose top-10 order is not its row order
C7_Witness ==
    /\ pc = "idle"
    /\ err = "none"
    /\ view = "overview"
    /\ "top_20_assets" \in bound
    /\ Len(df.rows) > 1
    /\ top_10_users[1] # 1
    /\ df = read_excel(uploaded)

\* C9: when several rows share the selected identifier, the drill-down is
\* built from the first of them in table order and from no other, no error is
\* raised, and the mean for the "vs. Average" delta is over all rows.
C9_FirstMatchWins ==
    Cardinality(MatchSet) > 1 =>
        /\ err = "none"
        /\ "user_data" \in bound => user_data = Min(MatchSet)
        /\ "avg_npm" \in bound =>
              /\ avg_npm = <<TotalOf("NetProfitMargin"), Len(df.rows)>>
              /\ delta_vs_avg =
                    <<df.rows[Min(MatchSet)]["NetProfitMargin"].num * Len(df.rows)
                        - TotalOf("NetProfitMargin"), Len(df.rows)>>
        /\ "asset_data" \in bound =>
              \A k \in DOMAIN AssetColumns :
                  asset_data[k] = df.rows[Min(MatchSet)][AssetColumns[k]]
        /\ "liability_data" \in bound =>
              \A k \in DOMAIN LiabilityColumns :
                  liability_data[k] = df.rows[Min(MatchSet)][LiabilityColumns[k]]

\* a completed drill-down of an identifier that two rows of different
\* margins and assets carry
C9_Witness ==
    /\ pc = "idle"
    /\ view = "drilldown"
    /\ "liability_data" \in bound
    /\ \E i, j \in MatchSet :
          /\ i < j
          /\ df.rows[i]["NetProfitMargin"] # df.rows[j]["NetProfitMargin"]
          /\ df.rows[i]["CashAndBankBalance"] # df.rows[j]["CashAndBankBalance"]

\* C10: a pass with no file uploaded shows the upload message only and
\* computes nothing; the main page reads df and selected_user only when the
\* same pass assigned both, and they are those of the file now uploaded.
C10_NoFileNoView ==
    /\ (pc = "idle" /\ uploaded = NoFile) =>
          /\ out = PageTop \o <<"info">>
          /\ view = "info"
          /\ bound = {}
          /\ err = "none"
    /\ err # "NameError"
    /\ (pc \in {"ov_tab1", "ov_tab2", "ov_tab3", "dd_row", "dd_tab1", "dd_tab2",
                "dd_tab3"} \/ view \in {"overview", "drilldown"}) =>
          /\ uploaded # NoFile
          /\ {"df", "selected_user"} \subseteq bound
          /\ df = read_excel(uploaded)
          /\ selected_user \in Range(user_list)
          /\ Range(user_list) = {Overview} \cup Range(Column(df, "UserID"))

\* the page after a file was uploaded, viewed and removed again
C10_Witness ==
    /\ pc = "idle"
    /\ uploaded = NoFile
    /\ cache # {}
    /\ view = "info"

====
